---- MODULE Spec2Model ----
(***************************************************************************)
(* A state-machine model of tupa/classifiers/nn/neural_network.py: the     *)
(* NeuralNetwork classifier (input assembly, per-axis MLP, computation     *)
(* graph lifecycle, minibatch trainer, persistence).                       *)
(*                                                                         *)
(* Abstractions.  Tensors are not floats: a parameter is a shape and an    *)
(* integer code of its content (which initialisation drew it, which key it *)
(* was created for, how many optimizer updates it received); a DyNet       *)
(* expression is a record telling whether its computation graph is still   *)
(* the live one, and what it was evaluated from.  An expression of a       *)
(* renewed graph is stale: DyNet refuses to use it (RuntimeError).         *)
(***************************************************************************)
EXTENDS Integers, Sequences, FiniteSets, TLC

(***************************************************************************)
(* Bounds of the model.                                                    *)
(***************************************************************************)
MaxQueue == 3
MaxIteration == 2
MaxLayers == 1
MaxMinibatch == 2
MaxDim == 2
MaxNum == 2
MaxGen == 9

(***************************************************************************)
(* Small input sets.                                                       *)
(***************************************************************************)
\* the axes of the classifier: range(len(self.num_labels))
Axes == {0, 1}
\* max_num_labels, per axis (constructor argument)
max_num_labels == [a \in Axes |-> IF a = 0 THEN 2 ELSE 1]
\* features.feature_params.MISSING_VALUE: the reserved "missing" marker
MISSING_VALUE == -1
\* feature-type suffixes, listed in lexicographic order
Suffixes == <<"d", "n", "w", "x">>
Rank(s) == CHOOSE i \in 1..Len(Suffixes) : Suffixes[i] = s
\* importance is a float: the model counts it in halves (3 is 1.5)
HalfImportances == {0, 1, 2, 3, 4}
Optimizers == {"sgd", "adam"}
\* Config().args: the options the constructor reads
Args(l, o, m, opt) ==
  [layers |-> l, layer_dim |-> 2, output_dim |-> o, minibatch_size |-> m,
   optimizer |-> opt]
\* the configurations of the lifecycle, label-growth and persistence models
LifecycleArgs == {Args(1, 3, m, "sgd") : m \in 1..MaxMinibatch}
LabelArgs == {Args(l, o, 1, "sgd") : l \in 0..MaxLayers, o \in {1, 3}}
PersistArgs == {Args(l, 3, 1, opt) : l \in 0..MaxLayers, opt \in Optimizers}

\* FeatureParameters of the classifier of the lifecycle model: a numeric
\* feature "n" of two values and a lookup feature "w" of one value
LifecycleInputParams ==
  [s \in {"n", "w"} |->
     IF s = "n"
       THEN [size |-> 1, dim |-> 1, numeric |-> TRUE, indexed |-> FALSE,
             updated |-> FALSE, num |-> 2]
       ELSE [size |-> 3, dim |-> 2, numeric |-> FALSE, indexed |-> FALSE,
             updated |-> TRUE, num |-> 1]]
\* the feature dictionaries the caller passes: lists of (suffix, values) in
\* insertion order
Features ==
  << << <<"n", <<1, 2>> >>, <<"w", <<0>> >> >>,
     << <<"w", <<MISSING_VALUE>> >>, <<"n", <<3, 4>> >> >> >>
FeatureIds == 1..Len(Features)

\* input assembly: the FeatureParameters a feature type may have, the
\* input_params over the numeric-or-lookup type "n" and the lookup type "w",
\* and the feature dictionaries a caller may build
ParamSpecs ==
  { [size |-> 3, dim |-> d, numeric |-> nu, indexed |-> ix, updated |-> TRUE,
     num |-> k] :
      d \in 0..MaxDim, nu \in BOOLEAN, ix \in BOOLEAN, k \in 1..MaxNum }
InputParamChoices ==
  { ip \in [{"n", "w"} -> ParamSpecs] : ~ip["w"].numeric }
ValueLists ==
  UNION { [1..k -> {MISSING_VALUE, 1}] : k \in 1..MaxNum }
FeatureDicts ==
  { <<it>> : it \in {"n", "w"} \X ValueLists }
  \cup { <<a, b>> : a \in {"n"} \X ValueLists, b \in {"w"} \X ValueLists }
  \cup { <<b, a>> : a \in {"n"} \X ValueLists, b \in {"w"} \X ValueLists }

(***************************************************************************)
(* Python helpers.                                                         *)
(***************************************************************************)
Max(a, b) == IF a >= b THEN a ELSE b
Min(a, b) == IF a <= b THEN a ELSE b
\* n * [x] on a Python list: the empty list when n <= 0
RepeatList(n, x) == [i \in 1..Max(n, 0) |-> x]
\* int(importance): truncation of a non-negative float given in halves
IntOfHalves(h) == h \div 2

\* an OrderedDict is a sequence of entries with distinct keys
OdHas(od, key) == \E i \in 1..Len(od) : od[i].key = key
OdGet(od, key) == od[CHOOSE i \in 1..Len(od) : od[i].key = key]
\* od[key] = entry: replaces in place, or appends a new key
OdSet(od, entry) ==
  IF OdHas(od, entry.key)
    THEN [i \in 1..Len(od) |-> IF od[i].key = entry.key THEN entry ELSE od[i]]
    ELSE Append(od, entry)
OdKeys(od) == [i \in 1..Len(od) |-> od[i].key]
OdValues(od) == [i \in 1..Len(od) |-> [shape |-> od[i].shape, val |-> od[i].val]]
\* OrderedDict(zip(keys, values)): positional, cut to the shorter list, a
\* repeated key keeping its first position and its last value
RECURSIVE ZipFrom(_, _, _, _)
ZipFrom(keys, values, i, od) ==
  IF i > Min(Len(keys), Len(values)) THEN od
  ELSE ZipFrom(keys, values, i + 1,
               OdSet(od, [key |-> keys[i], shape |-> values[i].shape,
                          val |-> values[i].val]))
ZipReversed(keys, values) ==
  ZipFrom(keys, [i \in 1..Len(values) |-> values[Len(values) + 1 - i]], 1, <<>>)
Zip(keys, values) == ZipFrom(keys, values, 1, <<>>)

\* parameter keys: ("W", i, axis), ("b", i, axis), or a suffix
MlpKey(role, i, axis) == <<role, i, axis>>
LookupKey(suffix) == <<suffix, -1, -1>>

(***************************************************************************)
(* Tensor contents.  A freshly initialised tensor is coded by the          *)
(* initialisation that drew it (gen) and its ordinal in the table; an      *)
(* optimizer update adds 1000.                                             *)
(***************************************************************************)
FreshVal(gen, ord) == gen * 100 + ord
GenOf(val) == (val % 1000) \div 100
UpdatedVal(val) == val + 1000

(***************************************************************************)
(* init_input_params                                                       *)
(***************************************************************************)
\* the loop of init_input_params over sorted(self._input_params.items()),
\* from the suffix of rank i on; st holds params, _input_dim, _indexed_dim,
\* _indexed_num
RECURSIVE InitInputLoop(_, _, _, _)
InitInputLoop(ip, gen, i, st) ==
  IF i > Len(Suffixes) THEN st
  ELSE IF Suffixes[i] \notin DOMAIN ip THEN InitInputLoop(ip, gen, i + 1, st)
  ELSE
    LET suffix == Suffixes[i]
        param == ip[suffix]
        st1 == IF param.dim # 0 /\ ~param.numeric
                 THEN [st EXCEPT !.params =
                         OdSet(@, [key |-> LookupKey(suffix),
                                   shape |-> <<param.size, param.dim>>,
                                   val |-> FreshVal(gen, 50 + i)])]
                 ELSE st
        st2 == IF param.dim = 0 THEN st1
               ELSE IF param.indexed
                 THEN [st1 EXCEPT !.indexed_dim = @ + param.dim,
                                  !.indexed_num = Max(@, param.num)]
                 ELSE [st1 EXCEPT !.input_dim = @ + param.num * param.dim]
    IN InitInputLoop(ip, gen, i + 1, st2)

\* init_indexed_input_params
init_indexed_input_params(st) == st.indexed_dim * st.indexed_num

init_input_params(ip, gen, params0) ==
  LET Total(st) == [st EXCEPT !.input_dim = @ + init_indexed_input_params(st)]
  IN Total(InitInputLoop(ip, gen, 1,
             [params |-> params0, input_dim |-> 0, indexed_dim |-> 0,
              indexed_num |-> 0]))

(***************************************************************************)
(* generate_inputs                                                         *)
(***************************************************************************)
\* sorted(features.items()): the items by suffix, from rank r on
RECURSIVE SortedFrom(_, _)
SortedFrom(items, r) ==
  IF r > Len(Suffixes) THEN <<>>
  ELSE SelectSeq(items, LAMBDA it : it[1] = Suffixes[r]) \o SortedFrom(items, r + 1)
SortedItems(items) == SortedFrom(items, 1)

\* the vector of one non-indexed lookup feature: for each value the
\* embedding (or the empty value), dim elements each
LookupVector(suffix, values, dim) ==
  [k \in 1..(Len(values) * dim) |->
     <<Rank(suffix), values[((k - 1) \div dim) + 1], ((k - 1) % dim) + 1>>]
\* dy.inputVector(values)
NumericVector(values) == [k \in 1..Len(values) |-> <<0, values[k], 0>>]

\* the loop of generate_inputs, from item i on; acc holds the elements
\* yielded so far, the collected indices and the exception raised, if any
RECURSIVE GenerateLoop(_, _, _, _, _)
GenerateLoop(items, ip, empties, i, acc) ==
  IF acc.exc # "none" \/ i > Len(items) THEN acc
  ELSE
    LET suffix == items[i][1]
        values == items[i][2]
    IN IF suffix \notin DOMAIN ip
         THEN [acc EXCEPT !.exc = "KeyError"]
       ELSE IF ip[suffix].numeric
         THEN GenerateLoop(items, ip, empties, i + 1,
                [acc EXCEPT !.vec = @ \o NumericVector(values)])
       ELSE IF ip[suffix].dim = 0
         THEN GenerateLoop(items, ip, empties, i + 1, acc)
       ELSE IF ip[suffix].indexed
         THEN GenerateLoop(items, ip, empties, i + 1,
                [acc EXCEPT !.indices = @ \o values])
       ELSE IF (\E k \in 1..Len(values) : values[k] = MISSING_VALUE)
               /\ suffix \notin empties
         THEN [acc EXCEPT !.exc = "KeyError"]
       ELSE GenerateLoop(items, ip, empties, i + 1,
                [acc EXCEPT !.vec = @ \o LookupVector(suffix, values, ip[suffix].dim)])

\* index_input: not implemented at this layer
index_input(indices) == "ValueError"

\* generate_inputs(features), consumed by list(): the elements and the
\* exception raised while generating them
generate_inputs(features, ip, empties, indexed_num) ==
  LET Indexed(acc) ==
        IF acc.exc # "none" \/ acc.indices = <<>> THEN acc
        ELSE IF Len(acc.indices) # indexed_num
          THEN [acc EXCEPT !.exc = "AssertionError"]
        ELSE [acc EXCEPT !.exc = index_input(acc.indices)]
  IN Indexed(GenerateLoop(SortedItems(features), ip, empties, 1,
                          [vec |-> <<>>, indices |-> <<>>, exc |-> "none"]))

(***************************************************************************)
(* The classifier.  self holds the fields of one NeuralNetwork instance    *)
(* and, in calls, exc and ret, the engine calls made, the exception raised *)
(* and the value returned by its last operation.                           *)
(***************************************************************************)
VARIABLES
  self,         \* the fields of the NeuralNetwork instance
  num_labels,   \* self.num_labels: the current label count of each axis
  disk,         \* the tensor artifact <filename>.model: <<>> or <<values>>
  descriptor,   \* the descriptor the last save_model returned: <<>> or <<d>>
  last,         \* the last call: the operation and its arguments
  repeats,      \* importance of the updates since the queue was last empty
  saved,        \* the instance as it was when save_model last returned
  features,     \* input assembly: the feature dictionary handed in
  inputs        \* input assembly: what generate_inputs made of it

vars == <<self, num_labels, disk, descriptor, last, repeats, saved,
          features, inputs>>

None == <<>>
Some(x) == <<x>>

\* __init__: a new untrained classifier
NewNetwork(args, ip) ==
  [ model |-> FALSE, trainer |-> "None",
    layers |-> args.layers, layer_dim |-> args.layer_dim,
    output_dim |-> args.output_dim, minibatch_size |-> args.minibatch_size,
    optimizer_str |-> args.optimizer,
    params |-> <<>>, empty_values |-> {}, input_params |-> ip,
    input_dim |-> 0, indexed_dim |-> -1, indexed_num |-> -1,
    losses |-> <<>>, iteration |-> 0,
    value |-> [a \in Axes |-> None],
    calls |-> <<>>, exc |-> "none", ret |-> <<>> ]

\* a call starts with no engine call made and no exception raised
Begin(s) == [s EXCEPT !.calls = <<>>, !.exc = "none", !.ret = <<>>]
Raise(s, e) == [s EXCEPT !.exc = e]

(***************************************************************************)
(* init_cg, init_mlp_params, init_model                                    *)
(***************************************************************************)
\* an engine call, with the number of expressions handed to it
EngineCall(name, k) == <<name, k>>
Called(s, name) == \E i \in 1..Len(s.calls) : s.calls[i][1] = name

\* dy.renew_cg(): every expression made so far belongs to a dead graph
Stale(e) == [e EXCEPT !.live = FALSE]
RenewCg(s) ==
  [s EXCEPT !.calls = Append(@, EngineCall("renew_cg", 0)),
            !.losses = [i \in 1..Len(s.losses) |-> Stale(s.losses[i])],
            !.value = [a \in Axes |->
                         IF s.value[a] = None THEN None
                         ELSE Some(Stale(s.value[a][1]))]]

init_cg(s) ==
  [RenewCg(s) EXCEPT !.empty_values =
     {suffix \in DOMAIN s.input_params :
        ~s.input_params[suffix].numeric /\ s.input_params[suffix].dim # 0}]

\* in_dim and out_dim of init_mlp_params (Python lists, from index 0)
InDims(s) ==
  <<s.input_dim>> \o RepeatList(s.layers - 1, s.layer_dim) \o <<s.output_dim>>
OutDims(s, axis) ==
  RepeatList(s.layers - 1, s.layer_dim) \o <<s.output_dim, max_num_labels[axis]>>

\* the inner loop of init_mlp_params: layers i.. of one axis
RECURSIVE MlpLayerLoop(_, _, _, _)
MlpLayerLoop(s, gen, axis, i) ==
  IF i > s.layers THEN s
  ELSE
    LET in_dim == InDims(s)
        out_dim == OutDims(s, axis)
        W == [key |-> MlpKey("W", i, axis),
              shape |-> <<out_dim[i + 1], in_dim[i + 1]>>,
              val |-> FreshVal(gen, axis * 20 + 2 * i + 1)]
        b == [key |-> MlpKey("b", i, axis),
              shape |-> <<out_dim[i + 1], 1>>,
              val |-> FreshVal(gen, axis * 20 + 2 * i + 2)]
    IN MlpLayerLoop([s EXCEPT !.params = OdSet(OdSet(@, W), b)], gen, axis, i + 1)

\* the outer loop: for axis in range(len(self.num_labels))
RECURSIVE MlpAxisLoop(_, _, _)
MlpAxisLoop(s, gen, axis) ==
  IF axis \notin Axes THEN s
  ELSE MlpAxisLoop(MlpLayerLoop(s, gen, axis, 0), gen, axis + 1)

init_mlp_params(s, gen) == MlpAxisLoop(s, gen, 0)

\* init_model; gen codes the random draw of this initialisation
init_model(s, gen) ==
  LET WithInputs(s1, st) ==
        [s1 EXCEPT !.params = st.params, !.input_dim = st.input_dim,
                   !.indexed_dim = st.indexed_dim,
                   !.indexed_num = st.indexed_num]
      Created(s1) ==
        init_cg(init_mlp_params(
          WithInputs(s1, init_input_params(s1.input_params, gen, s1.params)),
          gen))
  IN Created([s EXCEPT !.model = TRUE, !.trainer = s.optimizer_str])

(***************************************************************************)
(* evaluate_mlp, evaluate                                                  *)
(***************************************************************************)
\* the layer loop of evaluate_mlp on an input of length x: the length of
\* the output, or the exception of a missing key or a dimension mismatch
RECURSIVE MlpForward(_, _, _, _)
MlpForward(s, axis, i, x) ==
  IF i > s.layers THEN [exc |-> "none", len |-> x]
  ELSE IF ~OdHas(s.params, MlpKey("W", i, axis))
          \/ ~OdHas(s.params, MlpKey("b", i, axis))
    THEN [exc |-> "KeyError", len |-> 0]
  ELSE
    LET W == OdGet(s.params, MlpKey("W", i, axis))
        b == OdGet(s.params, MlpKey("b", i, axis))
    IN IF W.shape[2] # x \/ b.shape[1] # W.shape[1]
         THEN [exc |-> "DimensionError", len |-> 0]
         ELSE MlpForward(s, axis, i + 1, W.shape[1])

\* evaluate_mlp: the log-softmax expression, restricted to the first
\* num_labels[axis] units; oob tells that the restriction names units the
\* output does not have
evaluate_mlp(s, f, axis, train, n) ==
  LET LogSoftmax(gi, out) ==
        IF gi.exc # "none" THEN [exc |-> gi.exc, e |-> None]
        ELSE IF out.exc # "none" THEN [exc |-> out.exc, e |-> None]
        ELSE [exc |-> "none",
              e |-> Some([live |-> TRUE, train |-> train, feats |-> f,
                          oob |-> n[axis] > out.len])]
      Forward(gi) == LogSoftmax(gi, MlpForward(s, axis, 0, Len(gi.vec)))
  IN Forward(generate_inputs(Features[f], s.input_params, s.empty_values,
                             s.indexed_num))

\* evaluate: returns self with the (possibly new) cached expression
evaluate(s, f, axis, train, n, gen) ==
  LET Cache(s1, r) ==
        IF r.exc # "none" THEN Raise(s1, r.exc)
        ELSE [s1 EXCEPT !.value[axis] = r.e]
      Cached(s1) ==
        IF s1.value[axis] # None THEN s1
        ELSE Cache(s1, evaluate_mlp(s1, f, axis, train, n))
  IN Cached(IF ~s.model THEN init_model(s, gen) ELSE s)

(***************************************************************************)
(* score                                                                   *)
(***************************************************************************)
\* the number of units of the output layer of an axis
OutLen(s, axis) == OdGet(s.params, MlpKey("W", s.layers, axis)).shape[1]

\* a code of the tensors evaluate_mlp reads for an axis: the lookup tables
\* and the weights and biases of layers 0..layers, by position
RECURSIVE MlpContent(_, _, _)
MlpContent(s, axis, i) ==
  IF i > s.layers THEN 0
  ELSE (2 * i + 1) * OdGet(s.params, MlpKey("W", i, axis)).val
       + (2 * i + 2) * OdGet(s.params, MlpKey("b", i, axis)).val
       + MlpContent(s, axis, i + 1)
RECURSIVE LookupContent(_, _)
LookupContent(s, r) ==
  IF r > Len(Suffixes) THEN 0
  ELSE (IF OdHas(s.params, LookupKey(Suffixes[r]))
          THEN (6 + r) * OdGet(s.params, LookupKey(Suffixes[r])).val ELSE 0)
       + LookupContent(s, r + 1)

\* npvalue(): the log-probabilities of a live expression, as non-zero codes
\* of what they were computed from (tensors, dropout or not, features, unit)
LogProbs(s, e, axis) ==
  [j \in 1..OutLen(s, axis) |->
     (((MlpContent(s, axis, 0) + LookupContent(s, 1)) * 2
        + (IF e.train THEN 1 ELSE 0)) * 4 + e.feats) * 8 + j]

\* np.zeros(k)
Zeros(k) == [j \in 1..k |-> 0]
\* a vector of ones
Ones(k) == [j \in 1..k |-> 1]
\* array[:k]
Slice(array, k) == SubSeq(array, 1, Min(Len(array), k))

\* zeros, one too few
NoUpdatesYetShort(k) == Zeros(k - 1)
\* what score returns before any update was done
NoUpdatesYet(k) == Zeros(k)

\* score(features, axis); fault: whether the engine faults when the
\* restricted log-softmax names units the output does not have
score(s, f, axis, n, gen, fault) ==
  LET NpValue(s1, e) ==
        IF ~e.live THEN Raise(s1, "RuntimeError")
        ELSE IF e.oob /\ fault THEN Raise(s1, "EngineFault")
        ELSE [s1 EXCEPT !.ret = Slice(LogProbs(s1, e, axis), n[axis])]
      Evaluated(s1) ==
        IF s1.exc # "none" THEN s1 ELSE NpValue(s1, s1.value[axis][1])
  IN IF s.iteration > 0
       THEN Evaluated(evaluate(s, f, axis, FALSE, n, gen))
       ELSE [s EXCEPT !.ret = NoUpdatesYet(n[axis])]

(***************************************************************************)
(* update                                                                  *)
(***************************************************************************)
\* for _ in range(k): self._losses.append(dy.pick(self.evaluate(...), true))
RECURSIVE UpdateLoop(_, _, _, _, _, _)
UpdateLoop(s, f, axis, k, n, gen) ==
  LET Pick(s1, e) ==
        IF ~e.live THEN Raise(s1, "RuntimeError")
        ELSE UpdateLoop([s1 EXCEPT !.losses = Append(@, e)],
                        f, axis, k - 1, n, gen)
      Evaluated(s1) ==
        IF s1.exc # "none" THEN s1 ELSE Pick(s1, s1.value[axis][1])
  IN IF k <= 0 THEN s
     ELSE Evaluated(evaluate(s, f, axis, TRUE, n, gen))

\* the number of samples update adds for an importance (in halves)
Samples(importance) == IntOfHalves(importance)

\* update(features, axis, pred, true, importance); pred is not used and
\* true only selects the unit picked, which the loss term does not record
update(s, f, axis, importance, n, gen) ==
  UpdateLoop(s, f, axis, Samples(importance), n, gen)

(***************************************************************************)
(* finished_step, finalize, finished_item                                  *)
(***************************************************************************)
ClearedCache == [a \in Axes |-> None]

\* finished_step that also drops the queued losses
finished_step_dropping(s, train) ==
  [s EXCEPT !.value = ClearedCache, !.losses = <<>>]

finished_step(s, train) == [s EXCEPT !.value = ClearedCache]

\* self._trainer.update(): every tensor of the model moves, but the lookup
\* tables marked not updated
Frozen(s, key) ==
  \E suffix \in DOMAIN s.input_params :
     key = LookupKey(suffix) /\ ~s.input_params[suffix].updated
TrainerUpdate(s) ==
  [s EXCEPT !.calls = Append(@, EngineCall("update", 0)),
            !.params = [i \in 1..Len(s.params) |->
                          IF Frozen(s, s.params[i].key) THEN s.params[i]
                          ELSE [s.params[i] EXCEPT !.val = UpdatedVal(@)]]]

\* the iteration counter after a flush
NextIteration(it) == it + 1

\* the body of "if self._losses:" in finalize
Flush(s, fault) ==
  IF \E i \in 1..Len(s.losses) : ~s.losses[i].live
    THEN Raise(s, "RuntimeError")
  ELSE IF fault /\ \E i \in 1..Len(s.losses) : s.losses[i].oob
    THEN Raise(s, "EngineFault")
  ELSE LET s1 == [s EXCEPT !.calls =
                          Append(@, EngineCall("esum", Len(s.losses)))]
       IN [init_cg(TrainerUpdate(s1)) EXCEPT
             !.losses = <<>>, !.iteration = NextIteration(@)]

\* finalize counting an iteration also when nothing was queued
finalize_always_counting(s, finished_epoch, gen, fault) ==
  LET Epoch(s2) ==
        IF s2.exc # "none" THEN s2
        ELSE IF finished_epoch
          THEN [s2 EXCEPT !.calls = Append(@, EngineCall("update_epoch", 0))]
          ELSE s2
      Fit(s1) == Epoch(IF s1.losses # <<>> THEN Flush(s1, fault)
                       ELSE [s1 EXCEPT !.iteration = NextIteration(@)])
  IN Fit(IF ~s.model THEN init_model(s, gen) ELSE s)

\* the epoch signal sent before the flush
finalize_epoch_first(s, finished_epoch, gen, fault) ==
  LET Fit(s2) == IF s2.losses # <<>> THEN Flush(s2, fault) ELSE s2
      Epoch(s1) ==
        Fit(IF finished_epoch
              THEN [s1 EXCEPT !.calls = Append(@, EngineCall("update_epoch", 0))]
              ELSE s1)
  IN Epoch(IF ~s.model THEN init_model(s, gen) ELSE s)

\* finalize applying an optimizer update also when nothing was queued
finalize_always_updating(s, finished_epoch, gen, fault) ==
  LET Epoch(s2) ==
        IF s2.exc # "none" THEN s2
        ELSE IF finished_epoch
          THEN [s2 EXCEPT !.calls = Append(@, EngineCall("update_epoch", 0))]
          ELSE s2
      Fit(s1) == Epoch(IF s1.losses # <<>> THEN Flush(s1, fault)
                       ELSE TrainerUpdate(s1))
  IN Fit(IF ~s.model THEN init_model(s, gen) ELSE s)

finalize(s, finished_epoch, gen, fault) ==
  LET Epoch(s2) ==
        IF s2.exc # "none" THEN s2
        ELSE IF finished_epoch
          THEN [s2 EXCEPT !.calls = Append(@, EngineCall("update_epoch", 0))]
          ELSE s2
      Fit(s1) == Epoch(IF s1.losses # <<>> THEN Flush(s1, fault) ELSE s1)
  IN Fit(IF ~s.model THEN init_model(s, gen) ELSE s)

\* the test with > in place of >=
MinibatchOverfull(s) == Len(s.losses) > s.minibatch_size
\* the queue has reached the minibatch size
MinibatchFull(s) == Len(s.losses) >= s.minibatch_size

\* finished_item that resets the graph scope on every item below the
\* threshold, training or not
finished_item_resetting(s, train, gen, fault) ==
  LET Step(s1) == IF s1.exc # "none" THEN s1 ELSE finished_step(s1, train)
  IN Step(IF MinibatchFull(s) THEN finalize(s, FALSE, gen, fault)
          ELSE init_cg(s))

finished_item(s, train, gen, fault) ==
  LET Step(s1) == IF s1.exc # "none" THEN s1 ELSE finished_step(s1, train)
  IN Step(IF MinibatchFull(s) THEN finalize(s, FALSE, gen, fault)
          ELSE IF ~train THEN init_cg(s)
          ELSE s)

(***************************************************************************)
(* resize                                                                  *)
(***************************************************************************)
NoAxis == -1
\* the assert with < in place of <=
StrictlyWithinCapacity(n, i) == n[i] < max_num_labels[i]
\* the assert of resize for one axis
WithinCapacity(n, i) == n[i] <= max_num_labels[i]

\* resize(axis): the exception it raises; axis is NoAxis for None
resize(n, axis) ==
  IF \E i \in Axes : (axis = NoAxis \/ i = axis) /\ ~WithinCapacity(n, i)
    THEN "AssertionError" ELSE "none"

(***************************************************************************)
(* save_model, load_model                                                  *)
(***************************************************************************)
\* the descriptor save_model builds
Descriptor(s) ==
  [input_params |-> s.input_params, param_keys |-> OdKeys(s.params),
   layers |-> s.layers, layer_dim |-> s.layer_dim,
   optimizer |-> s.optimizer_str, iteration |-> s.iteration]

\* save_model; written: whether self.model.save succeeds (a ValueError is
\* reported and the descriptor returned all the same)
save_model(s, file, gen, fault, written) ==
  LET Save(s1) ==
        IF s1.exc # "none"
          THEN [self |-> s1, d |-> None, disk |-> file]
          ELSE [self |-> s1, d |-> Some(Descriptor(s1)),
                disk |-> IF written THEN Some(OdValues(s1.params)) ELSE None]
  IN Save(finalize(s, FALSE, gen, fault))

\* the iteration load_model restores
RestoredIteration(d) == d.iteration

\* load_model(d); file is the artifact, missing is the exception
\* self.model.load raises when there is none
load_model(s, d, file, gen, missing) ==
  LET Restore(s1) ==
        [s1 EXCEPT !.input_params = d.input_params,
                   !.layers = d.layers, !.layer_dim = d.layer_dim,
                   !.optimizer_str = d.optimizer,
                   !.iteration = RestoredIteration(d)]
      Load(s2) ==
        IF file = None
          THEN IF missing = "KeyError" THEN s2 ELSE Raise(s2, missing)
          ELSE [s2 EXCEPT !.params = Zip(d.param_keys, file[1])]
  IN Load(Restore(init_model(s, gen)))

(***************************************************************************)
(* The calls a parser makes on the classifier.                             *)
(***************************************************************************)
Call(op, axis, f, flag) == [op |-> op, axis |-> axis, feats |-> f, flag |-> flag]

\* the random draw of the next init_model: a code no tensor in memory or on
\* disk carries
UsedGens ==
  {GenOf(self.params[i].val) : i \in 1..Len(self.params)}
  \cup (IF disk = None THEN {}
        ELSE {GenOf(disk[1][i].val) : i \in 1..Len(disk[1])})
  \cup (IF saved = None THEN {}
        ELSE {GenOf(saved[1].params[i].val) : i \in 1..Len(saved[1].params)})
FreshGen ==
  CHOOSE g \in 0..MaxGen : g \notin UsedGens /\ \A h \in 0..(g - 1) : h \in UsedGens

\* repeats after a call that left the instance as s: zero when the queue is
\* empty, -1 (not a run of whole-importance updates) when the call is no
\* update, score or finished_step, or an importance had a fraction
RepeatsAfter(s, keeps, halves) ==
  IF s.losses = <<>> THEN 0
  ELSE IF ~keeps \/ repeats = -1 \/ halves % 2 = 1 THEN -1
  ELSE repeats + halves

NoPersistence == UNCHANGED <<disk, descriptor, saved>>
NoAssembly == UNCHANGED <<features, inputs>>

\* NeuralNetwork(..., input_params, max_num_labels) under Config().args
Construct(args) ==
  /\ self' = NewNetwork(args, LifecycleInputParams)
  /\ last' = Call("__init__", NoAxis, 0, FALSE)
  /\ repeats' = 0
  /\ UNCHANGED num_labels
  /\ NoPersistence /\ NoAssembly

\* the parser adds a label to the list of an axis
AddLabel(axis) ==
  /\ num_labels[axis] <= max_num_labels[axis]
  /\ num_labels' = [num_labels EXCEPT ![axis] = @ + 1]
  /\ last' = Call("add_label", axis, 0, FALSE)
  /\ UNCHANGED <<self, repeats>>
  /\ NoPersistence /\ NoAssembly

Resize(axis) ==
  /\ self' = Raise(Begin(self), resize(num_labels, axis))
  /\ last' = Call("resize", axis, 0, FALSE)
  /\ UNCHANGED <<num_labels, repeats>>
  /\ NoPersistence /\ NoAssembly

Score(f, axis) ==
  \E fault \in BOOLEAN :
    /\ self' = score(Begin(self), f, axis, num_labels, FreshGen, fault)
    /\ last' = Call("score", axis, f, FALSE)
    /\ repeats' = RepeatsAfter(self', TRUE, 0)
    /\ UNCHANGED num_labels
    /\ NoPersistence /\ NoAssembly

Update(f, axis, importance) ==
  /\ self' = update(Begin(self), f, axis, importance, num_labels, FreshGen)
  /\ Len(self'.losses) <= MaxQueue
  /\ last' = Call("update", axis, f, FALSE)
  /\ repeats' = RepeatsAfter(self', TRUE,
                             IF self'.exc = "none" THEN importance ELSE 0)
  /\ UNCHANGED num_labels
  /\ NoPersistence /\ NoAssembly

FinishedStep(train) ==
  /\ self' = finished_step(Begin(self), train)
  /\ last' = Call("finished_step", NoAxis, 0, train)
  /\ repeats' = RepeatsAfter(self', TRUE, 0)
  /\ UNCHANGED num_labels
  /\ NoPersistence /\ NoAssembly

FinishedItem(train) ==
  \E fault \in BOOLEAN :
    /\ self' = finished_item(Begin(self), train, FreshGen, fault)
    /\ self'.iteration <= MaxIteration
    /\ last' = Call("finished_item", NoAxis, 0, train)
    /\ repeats' = RepeatsAfter(self', FALSE, 0)
    /\ UNCHANGED num_labels
    /\ NoPersistence /\ NoAssembly

Finalize(finished_epoch) ==
  \E fault \in BOOLEAN :
    /\ self' = finalize(Begin(self), finished_epoch, FreshGen, fault)
    /\ self'.iteration <= MaxIteration
    /\ last' = Call("finalize", NoAxis, 0, finished_epoch)
    /\ repeats' = RepeatsAfter(self', FALSE, 0)
    /\ UNCHANGED num_labels
    /\ NoPersistence /\ NoAssembly

\* the instance as save_model left it, kept for comparison
Snapshot(s) == [Begin(s) EXCEPT !.value = ClearedCache]

SaveModel(written) ==
  \E fault \in BOOLEAN :
    \E r \in {save_model(Begin(self), disk, FreshGen, fault, written)} :
       /\ self' = r.self
       /\ self'.iteration <= MaxIteration
       /\ disk' = r.disk
       /\ descriptor' = IF r.d = None THEN descriptor ELSE r.d
       /\ saved' = IF r.d = None THEN saved
                   ELSE IF written THEN Some(Snapshot(r.self)) ELSE None
       /\ last' = Call("save_model", NoAxis, 0, FALSE)
       /\ repeats' = RepeatsAfter(self', FALSE, 0)
       /\ UNCHANGED num_labels
       /\ NoAssembly

LoadModel(missing) ==
  /\ descriptor # None
  /\ self' = load_model(Begin(self), descriptor[1], disk, FreshGen, missing)
  /\ last' = Call("load_model", NoAxis, 0, FALSE)
  /\ repeats' = RepeatsAfter(self', FALSE, 0)
  /\ UNCHANGED <<num_labels, disk, descriptor, saved>>
  /\ NoAssembly

NoInputs == [vec |-> <<>>, indices |-> <<>>, exc |-> "none"]

\* the state after construction under one of the configurations ArgsSet
InitWith(ArgsSet) ==
  /\ \E args \in ArgsSet : self = NewNetwork(args, LifecycleInputParams)
  /\ num_labels = [a \in Axes |-> 1]
  /\ disk = None
  /\ descriptor = None
  /\ saved = None
  /\ last = Call("__init__", NoAxis, 0, FALSE)
  /\ repeats = 0
  /\ features = <<>>
  /\ inputs = NoInputs

(***************************************************************************)
(* The training lifecycle of one classifier: score, update, finished_step, *)
(* finished_item, finalize and save_model in any order.                    *)
(***************************************************************************)
Init == InitWith(LifecycleArgs)

Next ==
  \/ \E axis \in Axes : Score(1, axis)
  \/ \E axis \in Axes, importance \in HalfImportances : Update(1, axis, importance)
  \/ \E train \in BOOLEAN : FinishedStep(train)
  \/ \E train \in BOOLEAN : FinishedItem(train)
  \/ \E finished_epoch \in BOOLEAN : Finalize(finished_epoch)
  \/ \E written \in BOOLEAN : SaveModel(written)

Spec == Init /\ [][Next]_vars

(***************************************************************************)
(* Label growth: the parser adds labels between the scores and updates of  *)
(* training items, under every layer count.                                *)
(***************************************************************************)
InitLabels == InitWith(LabelArgs)

NextLabels ==
  \/ \E axis \in Axes : AddLabel(axis)
  \/ \E axis \in Axes \cup {NoAxis} : Resize(axis)
  \/ \E f \in FeatureIds, axis \in Axes : Score(f, axis)
  \/ Update(1, 0, 2)
  \/ FinishedItem(TRUE)

SpecLabels == InitLabels /\ [][NextLabels]_vars

(***************************************************************************)
(* Persistence: classifiers are built, trained, saved and loaded.          *)
(***************************************************************************)
InitPersist == InitWith(PersistArgs)

NextPersist ==
  \/ \E args \in PersistArgs : Construct(args)
  \/ Update(1, 0, 2)
  \/ FinishedStep(FALSE)
  \/ \E written \in BOOLEAN : SaveModel(written)
  \/ \E missing \in {"KeyError", "IOError"} : LoadModel(missing)

SpecPersist == InitPersist /\ [][NextPersist]_vars

(***************************************************************************)
(* Input assembly: a classifier over some input_params is initialised and  *)
(* assembles the input vector of the feature dictionary it is handed.      *)
(***************************************************************************)
InitModel ==
  /\ ~self.model
  /\ self' = init_model(Begin(self), FreshGen)
  /\ last' = Call("init_model", NoAxis, 0, FALSE)
  /\ UNCHANGED <<num_labels, repeats, inputs, features>>
  /\ NoPersistence

GenerateInputs ==
  /\ self.model
  /\ inputs' = generate_inputs(features, self.input_params, self.empty_values,
                               self.indexed_num)
  /\ last' = Call("generate_inputs", NoAxis, 0, FALSE)
  /\ UNCHANGED <<self, num_labels, repeats, features>>
  /\ NoPersistence

InitInputs ==
  /\ \E ip \in InputParamChoices : self = NewNetwork(Args(1, 3, 1, "sgd"), ip)
  /\ features \in FeatureDicts
  /\ inputs = NoInputs
  /\ num_labels = [a \in Axes |-> 1]
  /\ disk = None
  /\ descriptor = None
  /\ saved = None
  /\ last = Call("__init__", NoAxis, 0, FALSE)
  /\ repeats = 0

NextInputs == InitModel \/ GenerateInputs

SpecInputs == InitInputs /\ [][NextInputs]_vars

(***************************************************************************)
(* Properties.                                                             *)
(***************************************************************************)
Returned == self.exc = "none"
Flushed(s) == Called(s, "update")

\* C1: from an empty loss queue, updates of whole importance k queue k loss
\* terms each, and once their importances total minibatch_size a
\* finished_item(train=True) raises the iteration counter by exactly 1 and
\* leaves the loss queue empty.
C1_MinibatchTrigger ==
  [][ /\ (last'.op = "update" /\ self'.exc = "none" /\ repeats' >= 0)
        => 2 * Len(self'.losses) = repeats'
      /\ (last'.op = "finished_item" /\ last'.flag /\ self'.exc = "none"
          /\ repeats = 2 * self.minibatch_size)
        => (self'.iteration = self.iteration + 1 /\ self'.losses = <<>>) ]_vars

\* a finished_item(train=True) found two losses, the minibatch size, queued
\* by one update of importance 2 or two of importance 1, and flushed them
C1_Witness ==
  /\ last.op = "finished_item" /\ last.flag /\ Returned
  /\ self.minibatch_size = 2
  /\ self.calls # <<>> /\ self.calls[1] = EngineCall("esum", 2)
  /\ self.iteration = 1 /\ self.losses = <<>>

\* C2: while the iteration counter is 0, score returns an all-zero vector of
\* length current_label_count(axis), whatever the features and the axis, also
\* when losses are queued.
C2_ZeroScoreBeforeFlush ==
  (last.op = "score" /\ self.iteration = 0)
    => (Returned /\ self.ret = Zeros(num_labels[last.axis]))

\* score of the second feature dictionary on an axis of two labels, with a
\* loss queued and no flush yet
C2_Witness ==
  /\ last.op = "score" /\ last.feats = 2 /\ self.iteration = 0
  /\ self.losses # <<>> /\ num_labels[last.axis] = 2
  /\ self.ret = <<0, 0>>

\* C3: score, update, finished_step, finished_item, finalize and save_model
\* change the iteration counter only in a flush of a non-empty loss queue,
\* which raises it by exactly 1.
C3_OnlyFlushCounts ==
  [][ last'.op \in {"score", "update", "finished_step", "finished_item",
                    "finalize", "save_model"}
      => \/ self'.iteration = self.iteration
         \/ /\ self.losses # <<>>
            /\ Flushed(self')
            /\ self'.iteration = self.iteration + 1 ]_vars

\* a second flush, made by finished_item
C3_Witness ==
  /\ last.op = "finished_item" /\ Flushed(self) /\ self.iteration = 2

\* C4: when finalize returns the loss queue is empty, whatever its length
\* was; the iteration counter grew by 1 iff the queue was not empty; and
\* with finished_epoch the epoch signal is the last engine call, after the
\* optimizer update of the flush.
C4_FinalizeFlushes ==
  [][ (last'.op = "finalize" /\ self'.exc = "none")
      => /\ self'.losses = <<>>
         /\ self'.iteration = self.iteration + (IF self.losses # <<>> THEN 1 ELSE 0)
         /\ (self.losses # <<>>) = Flushed(self')
         /\ last'.flag =
              (\E i \in 1..Len(self'.calls) : self'.calls[i][1] = "update_epoch")
         /\ last'.flag =>
              /\ self'.calls[Len(self'.calls)][1] = "update_epoch"
              /\ \A i \in 1..(Len(self'.calls) - 1) :
                   self'.calls[i][1] # "update_epoch" ]_vars

\* finalize(finished_epoch=True) flushed a single loss, fewer than the
\* minibatch size of 2, and then signalled the epoch
C4_Witness ==
  /\ last.op = "finalize" /\ last.flag /\ Returned
  /\ self.minibatch_size = 2
  /\ self.calls = <<EngineCall("esum", 1), EngineCall("update", 0),
                    EngineCall("renew_cg", 0), EngineCall("update_epoch", 0)>>
  /\ self.losses = <<>>

\* C5: within capacity, the array score returns has exactly
\* current_label_count(axis) entries, before and after the first flush and
\* for every layer count.
C5_ScoreLength ==
  (last.op = "score" /\ Returned
   /\ num_labels[last.axis] <= max_num_labels[last.axis])
    => Len(self.ret) = num_labels[last.axis]

\* the architecture hyperparameters of two instances agree
SameArchitecture(s, t) ==
  /\ s.layers = t.layers /\ s.layer_dim = t.layer_dim
  /\ s.output_dim = t.output_dim /\ s.optimizer_str = t.optimizer_str
  /\ s.input_params = t.input_params
\* what score(f, axis) raises or returns on an instance
ScoreOf(s, f, axis) ==
  LET r == score(Begin(s), f, axis, num_labels, 0, FALSE)
  IN [exc |-> r.exc, ret |-> r.ret]

\* C6: load_model of the saved descriptor on a fresh classifier of the same
\* architecture restores the iteration counter and gives every parameter
\* key the value it had when save_model returned, so that score returns on
\* it what it returns on the saved classifier, for all features and axes.
C6_RoundTrip ==
  [][ (last.op = "__init__" /\ last'.op = "load_model" /\ self'.exc = "none"
       /\ saved # None /\ SameArchitecture(self, saved[1]))
      => /\ self'.iteration = saved[1].iteration
         /\ self'.params = saved[1].params
         /\ \A f \in FeatureIds, axis \in Axes :
              ScoreOf(self', f, axis) = ScoreOf(saved[1], f, axis) ]_vars

\* a fresh classifier that loaded a model trained for two iterations and
\* scores as the saved one does, with log-probabilities rather than zeros
C6_Witness ==
  /\ last.op = "load_model" /\ Returned /\ saved # None
  /\ self.iteration = 2 /\ self.iteration = saved[1].iteration
  /\ self.params = saved[1].params
  /\ self.losses = <<>> /\ self.value = ClearedCache
  /\ ScoreOf(self, 1, 0) = ScoreOf(saved[1], 1, 0)
  /\ ScoreOf(self, 1, 0).ret # Zeros(num_labels[0])

\* C7: resize does not raise when the label count of a checked axis equals
\* its maximum, raises when a checked axis is one above its maximum, and
\* checks every axis for axis=None but only axis i for axis=i.
CheckedAxes(axis) == IF axis = NoAxis THEN Axes ELSE {axis}
C7_GrowthSafety ==
  last.op = "resize"
    => /\ (\A i \in CheckedAxes(last.axis) : num_labels[i] <= max_num_labels[i])
            => self.exc = "none"
       /\ (\E i \in CheckedAxes(last.axis) : num_labels[i] = max_num_labels[i] + 1)
            => self.exc = "AssertionError"

\* resize(0) with axis 0 at its maximum, while axis 1 is one above its own
C7_Witness ==
  /\ last.op = "resize" /\ last.axis = 0 /\ self.exc = "none"
  /\ num_labels[0] = max_num_labels[0]
  /\ num_labels[1] = max_num_labels[1] + 1

\* the fields of the instance but the score cache and the record of the call
Untouched(s) == [s EXCEPT !.value = ClearedCache, !.calls = <<>>,
                          !.exc = "none", !.ret = <<>>]

\* C9: finished_step changes only the per-axis score cache (not the loss
\* queue, the iteration counter or the graph scope), and a second
\* finished_step right after one changes nothing at all.
C9_FinishedStepIdempotent ==
  [][ last'.op = "finished_step"
      => /\ Untouched(self') = Untouched(self)
         /\ self'.value = ClearedCache
         /\ self'.calls = <<>> /\ self'.exc = "none"
         /\ last.op = "finished_step" => self' = self ]_vars

\* finished_step(train=True) on a trained classifier with losses queued
C9_Witness ==
  /\ last.op = "finished_step" /\ last.flag
  /\ self.losses # <<>> /\ self.iteration > 0
  /\ self.value = ClearedCache

\* C10: no loss term in the queue belongs to a graph scope that was reset.
C10_NoStaleLoss ==
  \A i \in 1..Len(self.losses) : self.losses[i].live

\* C11: the loss queue never holds more than minibatch_size terms.
C11_QueueBounded == Len(self.losses) <= self.minibatch_size

\* the affine layers init_mlp_params built for an axis: for layer i the
\* output and input size of its weight matrix and the size of its bias
LayersBuilt(s, axis) ==
  { i \in 0..(s.layers + 1) :
      OdHas(s.params, MlpKey("W", i, axis)) \/ OdHas(s.params, MlpKey("b", i, axis)) }
WShape(s, i, axis) == OdGet(s.params, MlpKey("W", i, axis)).shape
BShape(s, i, axis) == OdGet(s.params, MlpKey("b", i, axis)).shape

\* C12: for every axis init_mlp_params builds layers+1 affine layers; the
\* first takes the total input width, each layer takes what the one before
\* it puts out, and the last puts out max_num_labels[axis] units.
C12_MlpShapes ==
  self.model =>
    \A axis \in Axes :
      /\ LayersBuilt(self, axis) = 0..self.layers
      /\ \A i \in 0..self.layers :
           /\ OdHas(self.params, MlpKey("W", i, axis))
           /\ OdHas(self.params, MlpKey("b", i, axis))
           /\ BShape(self, i, axis)[1] = WShape(self, i, axis)[1]
      /\ WShape(self, 0, axis)[2] = self.input_dim
      /\ \A i \in 0..(self.layers - 1) :
           WShape(self, i, axis)[1] = WShape(self, i + 1, axis)[2]
      /\ WShape(self, self.layers, axis)[1] = max_num_labels[axis]

\* C13: every loss term in the queue was picked from a training-mode
\* evaluation of the MLP (train=True), also when score ran for the same axis
\* earlier in the step.
C13_TrainingModeLosses ==
  \A i \in 1..Len(self.losses) : self.losses[i].train

\* the terms of a loss queue, whatever graph scope is live
QueueTerms(q) == [i \in 1..Len(q) |-> [q[i] EXCEPT !.live = TRUE]]

\* C14: finished_item(train) takes one of three paths.  With the queue at
\* minibatch_size or above it flushes (and only this path can raise);
\* otherwise with train false it resets the graph scope, leaving the terms
\* of the loss queue and the iteration counter as they were; otherwise it
\* leaves graph scope, loss queue and iteration counter alone.  Whenever it
\* returns, the score cache is empty for every axis.
C14_FinishedItemPaths ==
  [][ last'.op = "finished_item"
      => /\ self'.exc # "none" => Len(self.losses) >= self.minibatch_size
         /\ self'.exc = "none" =>
              /\ self'.value = ClearedCache
              /\ IF Len(self.losses) >= self.minibatch_size
                   THEN /\ Flushed(self')
                        /\ self'.losses = <<>>
                        /\ self'.iteration = self.iteration + 1
                 ELSE IF ~last'.flag
                   THEN /\ Called(self', "renew_cg") /\ ~Flushed(self')
                        /\ Len(self'.calls) = 1
                        /\ QueueTerms(self'.losses) = QueueTerms(self.losses)
                        /\ self'.iteration = self.iteration
                 ELSE /\ self'.calls = <<>>
                      /\ self'.losses = self.losses
                      /\ self'.iteration = self.iteration ]_vars

\* finished_item(train=False) returned below the threshold with a loss
\* queued: the graph scope was reset, nothing was flushed, the cache is empty
C14_Witness ==
  /\ last.op = "finished_item" /\ ~last.flag /\ Returned
  /\ Len(self.losses) = 1 /\ self.minibatch_size = 2
  /\ Called(self, "renew_cg") /\ ~Flushed(self)
  /\ self.value = ClearedCache /\ self.iteration = 1

\* the engine calls of a finalize that only signals the epoch, if asked to
EpochSignalOnly(finished_epoch) ==
  IF finished_epoch THEN <<EngineCall("update_epoch", 0)>> ELSE <<>>

\* C15 as stated: with the loss queue empty, finalize leaves the iteration
\* counter, the loss queue, the graph scope, the score cache and the
\* parameters as they were, and its only engine call is the epoch signal,
\* made iff finished_epoch.
C15_EmptyFinalizeNoOp ==
  [][ (last'.op = "finalize" /\ self.losses = <<>>)
      => /\ [self' EXCEPT !.calls = <<>>] = Begin(self)
         /\ self'.calls = EpochSignalOnly(last'.flag) ]_vars

\* C15 amended: that holds on a classifier whose model is initialised.  On
\* one that is not, finalize first initialises the model, which resets the
\* graph scope; the iteration counter, the loss queue and the score cache
\* are unchanged, no optimizer update is applied, and the epoch signal is
\* made iff finished_epoch.
C15_EmptyFinalizeInitialised ==
  [][ (last'.op = "finalize" /\ self.losses = <<>>)
      => IF self.model
           THEN /\ [self' EXCEPT !.calls = <<>>] = Begin(self)
                /\ self'.calls = EpochSignalOnly(last'.flag)
           ELSE /\ self' = [init_model(Begin(self), FreshGen) EXCEPT
                              !.calls = @ \o EpochSignalOnly(last'.flag)]
                /\ self'.calls =
                     <<EngineCall("renew_cg", 0)>> \o EpochSignalOnly(last'.flag)
                /\ self'.iteration = self.iteration
                /\ self'.losses = <<>> /\ self'.value = self.value
                /\ self'.exc = "none" ]_vars

\* finalize(finished_epoch=True) on a trained classifier with an empty
\* queue and an output cached: only the epoch signal was made
C15_Witness ==
  /\ last.op = "finalize" /\ last.flag /\ Returned
  /\ self.losses = <<>> /\ self.iteration = 1
  /\ self.calls = EpochSignalOnly(TRUE)
  /\ \E a \in Axes : self.value[a] # None /\ self.value[a][1].live

\* C16: after load_model the optimizer in effect is of the kind the
\* descriptor names, and the parameter table holds the parameters of the
\* descriptor's architecture, not those of the hyperparameters the instance
\* held before the load.
C16_LoadRestoresFirst ==
  (last.op = "load_model" /\ Returned /\ descriptor # None)
    => /\ self.trainer = descriptor[1].optimizer
       /\ OdKeys(self.params) = descriptor[1].param_keys

\* the tensors of a table all come from one initialisation and none was
\* moved by an optimizer update
FreshlyInitialised(params) ==
  \A i, j \in 1..Len(params) :
    /\ params[i].val < UpdatedVal(0)
    /\ GenOf(params[i].val) = GenOf(params[j].val)

\* C17: when there is no tensor artifact to read, load_model returns without
\* raising and the parameter table holds the tensors initialised at the
\* start of the load.
C17_FailedReadKeepsFresh ==
  (last.op = "load_model" /\ disk = None)
    => /\ Returned
       /\ FreshlyInitialised(self.params)

\* the values a dictionary holds for a suffix: none when the key is absent
ValuesOf(items, suffix) ==
  IF \E i \in 1..Len(items) : items[i][1] = suffix
    THEN items[CHOOSE i \in 1..Len(items) : items[i][1] = suffix][2]
    ELSE <<>>
\* the feature types that count: dim # 0 and, for the lookup types,
\* not numeric
IndexedTypes(ip) ==
  {s \in DOMAIN ip : ip[s].dim # 0 /\ ip[s].indexed /\ ~ip[s].numeric}
RECURSIVE SumLen(_, _)
SumLen(items, S) ==
  IF S = {} THEN 0
  ELSE LET s == CHOOSE x \in S : TRUE
       IN Len(ValuesOf(items, s)) + SumLen(items, S \ {s})
\* a valid feature dictionary: every non-indexed feature type supplies its
\* declared number of values, and the indexed ids number indexed_num
ValidFeatures(items, s) ==
  /\ \A i \in 1..Len(items) : items[i][1] \in DOMAIN s.input_params
  /\ \A suffix \in DOMAIN s.input_params :
       ~s.input_params[suffix].indexed
         => Len(ValuesOf(items, suffix)) = s.input_params[suffix].num
  /\ SumLen(items, IndexedTypes(s.input_params)) = s.indexed_num
\* the same dictionary with its keys inserted in another order
Reorderings(items) ==
  { [i \in 1..Len(items) |-> items[p[i]]] :
      p \in { q \in [1..Len(items) -> 1..Len(items)] :
                \A i, j \in 1..Len(items) : q[i] = q[j] => i = j } }

\* C19: every output held in the per-axis score cache was computed in the
\* graph scope that is live now.
C19_NoStaleCache ==
  \A a \in Axes : self.value[a] # None => self.value[a][1].live

\* C20: once the iteration counter is positive, the output score(f, axis)
\* reads and the loss update(f, axis, ...) appends were computed from f.
C20_OwnFeatures ==
  /\ (last.op = "score" /\ Returned /\ self.iteration > 0)
       => self.value[last.axis][1].feats = last.feats
  /\ (last.op = "update" /\ Returned /\ self.iteration > 0
      /\ self.losses # <<>>)
       => self.losses[Len(self.losses)].feats = last.feats

\* a feature dictionary without the items of the types whose dim is 0
WithoutDimZero(items, ip) ==
  SelectSeq(items, LAMBDA it : it[1] \in DOMAIN ip => ip[it[1]].dim # 0)
\* input_params without the types whose dim is 0
DimNonZero(ip) == [s \in {x \in DOMAIN ip : ip[x].dim # 0} |-> ip[s]]

\* C18: a feature type of dim 0 adds nothing to the input width
\* init_input_params declares, and no element to the vector generate_inputs
\* assembles: both are what they would be without the type.
C18_DimZeroContributesNothing ==
  /\ self.model
       => self.input_dim =
            init_input_params(DimNonZero(self.input_params), 0, <<>>).input_dim
  /\ (last.op = "generate_inputs" /\ inputs.exc = "none")
       => inputs.vec =
            generate_inputs(WithoutDimZero(features, self.input_params),
                            self.input_params, self.empty_values,
                            self.indexed_num).vec

\* C8: the input vector generate_inputs assembles from a valid feature
\* dictionary is as long as the input width init_input_params declared, and
\* is the same for every insertion order of the keys.
C8_InputWidth ==
  (last.op = "generate_inputs" /\ ValidFeatures(features, self)
   /\ inputs.exc = "none")
    => /\ Len(inputs.vec) = self.input_dim
       /\ \A items \in Reorderings(features) :
            generate_inputs(items, self.input_params, self.empty_values,
                            self.indexed_num) = inputs
====
